---- MODULE Spec2Model ----
(***************************************************************************)
(* BitmapRange<T, Diff, NBITS> of fastrtps/utils/fixed_size_bitmap.hpp and  *)
(* HistoryCache of src/cpp/HistoryCache.cpp.                               *)
(*                                                                         *)
(* T is modelled by the naturals with the default DiffFunction (a - b).    *)
(* A uint32_t word of the bitmap is modelled by the set of its bit         *)
(* positions that are 1 (position 0 is the least significant bit, 31 the   *)
(* most significant one), so that <<, >>, | and count-leading-zeroes are   *)
(* computed bit for bit as the C++ computes them.  All uint32_t counters   *)
(* of the model stay far below 2^32, so no arithmetic wraps.               *)
(***************************************************************************)
EXTENDS Integers, Sequences, FiniteSets, TLC

VARIABLES
    NBITS,        \* template parameter NBITS of the instance under test
    base_,        \* T base_
    range_max_,   \* T range_max_
    bitmap_,      \* std::array<uint32_t, NITEMS> bitmap_
    num_bits_,    \* uint32_t num_bits_
    lastOp,       \* the public operation that ran last, its item or base
                  \* argument and its result
    base0,        \* base given to the constructor or to the last base(T)
    added,        \* items accepted by add since then (while phase # "other")
    phase,        \* "adds": only add calls since construction / base(T);
                  \* "rebased": adds followed by exactly one moving
                  \* base_update; "other": anything else
    noSet,        \* no bitmap_set since construction / base(T)
    \* HistoryCache
    changes,      \* std::vector<CacheChange_t*> changes, as a sequence of
                  \* [sequenceNumber, writerGUID]
    minSeqNum,    \* SequenceNumber_t minSeqNum (its to64long value)
    maxSeqNum,    \* SequenceNumber_t maxSeqNum
    minSeqNumGuid,\* GUID_t minSeqNumGuid
    maxSeqNumGuid,\* GUID_t maxSeqNumGuid
    isHistoryFull,\* bool isHistoryFull
    historySize,  \* historySize
    historyKind,  \* WRITER or READER
    lastChangeSequenceNumber,  \* rtpswriter->lastChangeSequenceNumber
    cacheOp,      \* the HistoryCache operation that completed last, its result
    \* the thread inside a mutating operation (holding the lock)
    pc,           \* "idle", or the source line it executes next
    it,           \* iterator of the loop of updateMaxMinSeqNum (1-based)
    curOp,        \* the operation the thread is in
    \* the thread calling get_seq_num_min / get_seq_num_max (no lock)
    rpc,          \* "idle", "l175", "l182" or "done"
    rseq,         \* *seqnum, written by line 174 / 181
    got,          \* what the last call returned: <<which, seqnum, guid>>
    lastStable,   \* the four fields when the last mutating operation completed
    seen,         \* the pairs of completed states during the current getter call
    gotOk         \* the pair the getter returned is one of a completed state

bitmapVars == <<NBITS, base_, range_max_, bitmap_, num_bits_,
                lastOp, base0, added, phase, noSet>>

cacheVars == <<changes, minSeqNum, maxSeqNum, minSeqNumGuid, maxSeqNumGuid,
               isHistoryFull, historySize, historyKind, lastChangeSequenceNumber>>

threadVars == <<cacheOp, pc, it, curOp, rpc, rseq, got, lastStable, seen, gotOk>>

vars == <<NBITS, base_, range_max_, bitmap_, num_bits_,
          lastOp, base0, added, phase, noSet,
          changes, minSeqNum, maxSeqNum, minSeqNumGuid, maxSeqNumGuid,
          isHistoryFull, historySize, historyKind, lastChangeSequenceNumber,
          cacheOp, pc, it, curOp, rpc, rseq, got, lastStable, seen, gotOk>>

-----------------------------------------------------------------------------
(* Bounds and input sets *)

\* number of strides of 8 the small-window bases span above 10
MaxBaseSteps == 4

\* window sizes: below one word, not a multiple of 32, a multiple of 32
SmallN == {8, 40, 64}

\* the window size of the documented scenarios
ScenarioN == 256

Bases(n) ==
    IF n = ScenarioN
    THEN {900, 990, 1000, 1006}
    ELSE {10 + 8 * k : k \in 0..MaxBaseSteps} \cup {11}

Items(n) ==
    IF n = ScenarioN
    THEN {999, 1000, 1005, 1200, 1250, 1255, 1256}
    ELSE {9, 10, 17, 49, 73}

\* offsets of the bits that are 1 in the arrays handed to bitmap_set
SetOffsets == {{}, {0, 5}, {0, 31}, {39, 40}}

\* num_bits arguments handed to bitmap_set
SetNumBits == {0, 1, 33, 300}

\* largest sequence number of a change
MaxSeq == 3

\* largest historySize
MaxHistory == 2

\* to64long of the sequence numbers of the changes
SeqNums == 1..MaxSeq

\* writer GUIDs of the changes
Guids == {"g1", "g2"}

\* to64long of SEQUENCENUMBER_UNKOWN
SeqUnknown == 0 - 1

\* GUID_UNKNOWN
GuidUnknown == "unknown"

-----------------------------------------------------------------------------
(* uint32_t words *)

MaxOf(S) == CHOOSE x \in S : \A y \in S : y <= x
MinOf(S) == CHOOSE x \in S : \A y \in S : x <= y

\* w << s, for 0 < s < 32
Shl(w, s) == {p + s : p \in {q \in w : q + s <= 31}}
\* w >> s, for 0 < s < 32
Shr(w, s) == {p - s : p \in {q \in w : q >= s}}
\* a | b
Or(a, b) == a \cup b
\* __builtin_clz(w), for w # 0
Clz(w) == 31 - MaxOf(w)
\* 1UL << b
Bit(b) == {b}

\* #define NITEMS ((NBITS + 31ul) / 32ul)
NITEMS(n) == (n + 31) \div 32

\* bitmap_type value-initialised / bitmap_.fill(0UL)
ZeroMap(n) == [i \in 0..(NITEMS(n) - 1) |-> {}]

\* the array of NITEMS words whose bits at the given offsets are 1
WordsOf(n, offs) ==
    [i \in 0..(NITEMS(n) - 1) |->
        {31 - (k % 32) : k \in {o \in offs : o \div 32 = i}}]

-----------------------------------------------------------------------------
(* The object *)

Self == [base_ |-> base_, range_max_ |-> range_max_,
         bitmap_ |-> bitmap_, num_bits_ |-> num_bits_]

\* explicit BitmapRange(T base)
BitmapRange(n, b) ==
    [base_ |-> b, range_max_ |-> b + (n - 1), bitmap_ |-> ZeroMap(n), num_bits_ |-> 0]

\* void base(T base)
base(n, r, b) ==
    [base_ |-> b, range_max_ |-> b + (n - 1), num_bits_ |-> 0, bitmap_ |-> ZeroMap(n)]

\* bool empty() const
empty(r) == r.num_bits_ = 0

\* T max() const, for a non-empty range
max(r) == r.base_ + (r.num_bits_ - 1)

\* add that overwrites num_bits_ with diff + 1 instead of taking the maximum
add_nomax(n, r, item) ==
    IF (item >= r.base_) /\ (r.range_max_ >= item)
    THEN LET diff == item - r.base_
             pos == diff \div 32
             d == diff % 32
         IN [r |-> [r EXCEPT !.num_bits_ = diff + 1,
                             !.bitmap_[pos] = Or(@, Bit(31 - d))],
             ret |-> TRUE]
    ELSE [r |-> r, ret |-> FALSE]

\* add with the upper bound of the window excluded (range_max_ > item)
add_exclusive(n, r, item) ==
    IF (item >= r.base_) /\ (r.range_max_ > item)
    THEN LET diff == item - r.base_
             pos == diff \div 32
             d == diff % 32
         IN [r |-> [r EXCEPT !.num_bits_ = IF diff + 1 > r.num_bits_ THEN diff + 1 ELSE r.num_bits_,
                             !.bitmap_[pos] = Or(@, Bit(31 - d))],
             ret |-> TRUE]
    ELSE [r |-> r, ret |-> FALSE]

\* bool add(const T& item): the new state and the value returned
add(n, r, item) ==
    IF (item >= r.base_) /\ (r.range_max_ >= item)
    THEN LET diff == item - r.base_
             pos == diff \div 32
             d == diff % 32
         IN [r |-> [r EXCEPT !.num_bits_ = IF diff + 1 > r.num_bits_ THEN diff + 1 ELSE r.num_bits_,
                             !.bitmap_[pos] = Or(@, Bit(31 - d))],
             ret |-> TRUE]
    ELSE [r |-> r, ret |-> FALSE]

\* void bitmap_get(num_bits, bitmap, num_longs_used) const
bitmap_get(r) ==
    [num_bits |-> r.num_bits_,
     num_longs_used |-> (r.num_bits_ + 31) \div 32,
     bitmap |-> r.bitmap_]

\* bitmap_set without bitmap_.fill(0UL): the words not copied keep their value
bitmap_set_nofill(n, r, num_bits, bitmap) ==
    LET nb == IF num_bits < n THEN num_bits ELSE n
        num_words == (nb + 31) \div 32
    IN [r EXCEPT !.num_bits_ = nb,
                 !.bitmap_ = [i \in 0..(NITEMS(n) - 1) |->
                                 IF i < num_words THEN bitmap[i] ELSE r.bitmap_[i]]]

\* bitmap_set copying only the whole words below num_bits (num_bits / 32)
bitmap_set_floor(n, r, num_bits, bitmap) ==
    LET nb == IF num_bits < n THEN num_bits ELSE n
        num_words == nb \div 32
    IN [r EXCEPT !.num_bits_ = nb,
                 !.bitmap_ = [i \in 0..(NITEMS(n) - 1) |->
                                 IF i < num_words THEN bitmap[i] ELSE {}]]

\* void bitmap_set(uint32_t num_bits, const uint32_t* bitmap)
\* memcpy copies the first num_bytes / sizeof(uint32_t) words of the input
bitmap_set(n, r, num_bits, bitmap) ==
    LET nb == IF num_bits < n THEN num_bits ELSE n
        num_words == (nb + 31) \div 32
    IN [r EXCEPT !.num_bits_ = nb,
                 !.bitmap_ = [i \in 0..(NITEMS(n) - 1) |->
                                 IF i < num_words THEN bitmap[i] ELSE {}]]

\* the inner loop of for_each taking the lowest bit first
RECURSIVE WordItems_lsb(_, _)
WordItems_lsb(bits, item) ==
    IF bits = {}
    THEN <<>>
    ELSE LET bit == MinOf(bits)
             offset == 31 - bit
         IN <<item + offset>> \o WordItems_lsb(bits \ Bit(bit), item)

\* inner while loop of for_each: the items of one word, msb first
RECURSIVE WordItems(_, _)
WordItems(bits, item) ==
    IF bits = {}
    THEN <<>>
    ELSE LET offset == Clz(bits)
             bit == 31 - offset
         IN <<item + offset>> \o WordItems(bits \ Bit(bit), item)

\* outer for loop of for_each, from word i on
RECURSIVE ForEachFrom(_, _, _, _)
ForEachFrom(r, i, n_longs, item) ==
    IF i < n_longs
    THEN WordItems(r.bitmap_[i], item) \o ForEachFrom(r, i + 1, n_longs, item + 32)
    ELSE <<>>

\* void for_each(UnaryFunc f) const: the sequence of the arguments f is called with
for_each(r) == ForEachFrom(r, 0, (r.num_bits_ + 31) \div 32, r.base_)

-----------------------------------------------------------------------------
(* The in-place shifts.  Each loop is unrolled as the code runs it, one    *)
(* assignment to one element of bitmap_ at a time.                         *)

\* std::copy(first, last, d_first) over indexes: bm[dst++] = bm[src++] while src < last
RECURSIVE CopyUp(_, _, _, _)
CopyUp(bm, src, last, dst) ==
    IF src < last
    THEN CopyUp([bm EXCEPT ![dst] = bm[src]], src + 1, last, dst + 1)
    ELSE bm

\* std::copy over reverse iterators: bm[dst--] = bm[src--] while src >= 0
RECURSIVE CopyDown(_, _, _)
CopyDown(bm, src, dst) ==
    IF src >= 0
    THEN CopyDown([bm EXCEPT ![dst] = bm[src]], src - 1, dst - 1)
    ELSE bm

\* std::fill_n(bitmap_.rbegin(), n_items, 0)
FillBack(n, bm, n_items) ==
    [i \in 0..(NITEMS(n) - 1) |-> IF i >= NITEMS(n) - n_items THEN {} ELSE bm[i]]

\* std::fill_n(bitmap_.begin(), n_items, 0)
FillFront(n, bm, n_items) ==
    [i \in 0..(NITEMS(n) - 1) |-> IF i < n_items THEN {} ELSE bm[i]]

\* the loop of shift_map_left without the bits taken from the next word
RECURSIVE LeftLoop_nocarry(_, _, _, _, _, _)
LeftLoop_nocarry(bm, i, nn, last_index, n_bits, overflow_bits) ==
    IF nn < last_index
    THEN LeftLoop_nocarry([bm EXCEPT ![i] = Shl(bm[nn], n_bits)],
                          i + 1, nn + 1, last_index, n_bits, overflow_bits)
    ELSE bm

\* for (size_t i = 0, n = n_items; n < last_index; i++, n++) of shift_map_left
RECURSIVE LeftLoop(_, _, _, _, _, _)
LeftLoop(bm, i, nn, last_index, n_bits, overflow_bits) ==
    IF nn < last_index
    THEN LeftLoop([bm EXCEPT ![i] = Or(Shl(bm[nn], n_bits), Shr(bm[nn + 1], overflow_bits))],
                  i + 1, nn + 1, last_index, n_bits, overflow_bits)
    ELSE bm

\* shift_map_left that resets num_bits_ but forgets bitmap_.fill(0UL)
shift_map_left_nofill(n, r, n_bits) ==
    IF n_bits >= r.num_bits_
    THEN [r EXCEPT !.num_bits_ = 0]
    ELSE LET n_items == n_bits \div 32
             nb == n_bits % 32
             overflow_bits == 32 - nb
             last_index == NITEMS(n) - 1
             moved == IF nb = 0
                      THEN FillBack(n, CopyUp(r.bitmap_, n_items, NITEMS(n), 0), n_items)
                      ELSE LET looped == LeftLoop(r.bitmap_, 0, n_items, last_index, nb, overflow_bits)
                               lastw == [looped EXCEPT ![last_index - n_items] = Shl(looped[last_index], nb)]
                           IN FillBack(n, lastw, n_items)
         IN [r EXCEPT !.num_bits_ = r.num_bits_ - n_bits, !.bitmap_ = moved]

\* shift_map_left that empties the range only when n_bits > num_bits_
shift_map_left_late(n, r, n_bits) ==
    IF n_bits > r.num_bits_
    THEN [r EXCEPT !.num_bits_ = 0, !.bitmap_ = ZeroMap(n)]
    ELSE LET n_items == n_bits \div 32
             nb == n_bits % 32
             overflow_bits == 32 - nb
             last_index == NITEMS(n) - 1
             moved == IF nb = 0
                      THEN FillBack(n, CopyUp(r.bitmap_, n_items, NITEMS(n), 0), n_items)
                      ELSE LET looped == LeftLoop(r.bitmap_, 0, n_items, last_index, nb, overflow_bits)
                               lastw == [looped EXCEPT ![last_index - n_items] = Shl(looped[last_index], nb)]
                           IN FillBack(n, lastw, n_items)
         IN [r EXCEPT !.num_bits_ = r.num_bits_ - n_bits, !.bitmap_ = moved]

\* void shift_map_left(uint32_t n_bits): the new bitmap_ and num_bits_
shift_map_left(n, r, n_bits) ==
    IF n_bits >= r.num_bits_
    THEN [r EXCEPT !.num_bits_ = 0, !.bitmap_ = ZeroMap(n)]
    ELSE LET n_items == n_bits \div 32
             nb == n_bits % 32
             overflow_bits == 32 - nb
             last_index == NITEMS(n) - 1
             moved == IF nb = 0
                      THEN FillBack(n, CopyUp(r.bitmap_, n_items, NITEMS(n), 0), n_items)
                      ELSE LET looped == LeftLoop(r.bitmap_, 0, n_items, last_index, nb, overflow_bits)
                               lastw == [looped EXCEPT ![last_index - n_items] = Shl(looped[last_index], nb)]
                           IN FillBack(n, lastw, n_items)
         IN [r EXCEPT !.num_bits_ = r.num_bits_ - n_bits, !.bitmap_ = moved]

\* for (size_t i = last_index, n = last_index - n_items; n > 0; i--, n--) of shift_map_right
RECURSIVE RightLoop(_, _, _, _, _)
RightLoop(bm, i, nn, n_bits, overflow_bits) ==
    IF nn > 0
    THEN RightLoop([bm EXCEPT ![i] = Or(Shr(bm[nn], n_bits), Shl(bm[nn - 1], overflow_bits))],
                   i - 1, nn - 1, n_bits, overflow_bits)
    ELSE bm

\* the scan of shift_map_right taking the highest bit of the word, not the lowest
RECURSIVE FindNewMax_highbit(_, _, _)
FindNewMax_highbit(bm, i, n_items) ==
    IF i > n_items
    THEN LET j == i - 1
             bits == bm[j]
         IN IF bits # {}
            THEN (j * 32) + Clz(bits) + 1
            ELSE FindNewMax_highbit(bm, j, n_items)
    ELSE 0

\* the scan of shift_map_right replaced by the capacity of the words scanned
FindNewMax_capacity(bm, i, n_items) == i * 32

\* for (uint32_t i = NITEMS; i > n_items;) of shift_map_right: the new num_bits
\* bits & ~(bits - 1) keeps the lowest bit that is 1
RECURSIVE FindNewMax(_, _, _)
FindNewMax(bm, i, n_items) ==
    IF i > n_items
    THEN LET j == i - 1
             bits == bm[j]
         IN IF bits # {}
            THEN LET lowest == Bit(MinOf(bits))
                     offset == Clz(lowest) + 1
                 IN (j * 32) + offset
            ELSE FindNewMax(bm, j, n_items)
    ELSE 0

\* void shift_map_right(uint32_t n_bits): the new bitmap_ and num_bits_
shift_map_right(n, r, n_bits) ==
    IF n_bits >= n
    THEN [r EXCEPT !.num_bits_ = 0, !.bitmap_ = ZeroMap(n)]
    ELSE LET new_num_bits == r.num_bits_ + n_bits
             find_new_max == new_num_bits > n
             n_items == n_bits \div 32
             nb == n_bits % 32
             overflow_bits == 32 - nb
             last_index == NITEMS(n) - 1
             moved == IF nb = 0
                      THEN FillFront(n, CopyDown(r.bitmap_, last_index - n_items, last_index), n_items)
                      ELSE LET looped == RightLoop(r.bitmap_, last_index, last_index - n_items,
                                                   nb, overflow_bits)
                               first == [looped EXCEPT ![n_items] = Shr(looped[0], nb)]
                           IN FillFront(n, first, n_items)
         IN [r EXCEPT !.num_bits_ = IF find_new_max
                                    THEN FindNewMax(moved, NITEMS(n), n_items)
                                    ELSE new_num_bits,
                      !.bitmap_ = moved]

\* void base_update(T base)
base_update(n, r, b) ==
    IF b = r.base_
    THEN r
    ELSE LET shifted == IF b > r.base_
                        THEN shift_map_left(n, r, b - r.base_)
                        ELSE shift_map_right(n, r, r.base_ - b)
         IN [shifted EXCEPT !.base_ = b, !.range_max_ = b + (n - 1)]

-----------------------------------------------------------------------------
(* HistoryCache: the pure parts of its operations *)

Change(seq, guid) == [sequenceNumber |-> seq, writerGUID |-> guid]

\* the four fields updateMaxMinSeqNum writes
MaxMin(mn, mx, mng, mxg) ==
    [minSeqNum |-> mn, maxSeqNum |-> mx, minSeqNumGuid |-> mng, maxSeqNumGuid |-> mxg]

\* updateMaxMinSeqNum whose loop forgets maxSeqNumGuid = (*it)->writerGUID
RECURSIVE UpdateLoop_noguid(_, _, _)
UpdateLoop_noguid(ch, i, acc) ==
    IF i > Len(ch)
    THEN acc
    ELSE LET a1 == IF ch[i].sequenceNumber > acc.maxSeqNum
                   THEN [acc EXCEPT !.maxSeqNum = ch[i].sequenceNumber]
                   ELSE acc
             a2 == IF ch[i].sequenceNumber < a1.minSeqNum
                   THEN [a1 EXCEPT !.minSeqNum = ch[i].sequenceNumber,
                                   !.minSeqNumGuid = ch[i].writerGUID]
                   ELSE a1
         IN UpdateLoop_noguid(ch, i + 1, a2)

\* for(it = changes.begin(); it != changes.end(); it++) of updateMaxMinSeqNum
RECURSIVE UpdateLoop(_, _, _)
UpdateLoop(ch, i, acc) ==
    IF i > Len(ch)
    THEN acc
    ELSE LET a1 == IF ch[i].sequenceNumber > acc.maxSeqNum
                   THEN [acc EXCEPT !.maxSeqNum = ch[i].sequenceNumber,
                                    !.maxSeqNumGuid = ch[i].writerGUID]
                   ELSE acc
             a2 == IF ch[i].sequenceNumber < a1.minSeqNum
                   THEN [a1 EXCEPT !.minSeqNum = ch[i].sequenceNumber,
                                   !.minSeqNumGuid = ch[i].writerGUID]
                   ELSE a1
         IN UpdateLoop(ch, i + 1, a2)

\* void HistoryCache::updateMaxMinSeqNum(): the new values of the four fields
updateMaxMinSeqNum(ch) ==
    IF ch # <<>>
    THEN UpdateLoop(ch, 1, MaxMin(ch[1].sequenceNumber, ch[1].sequenceNumber,
                                  ch[1].writerGUID, ch[1].writerGUID))
    ELSE MaxMin(SeqUnknown, SeqUnknown, GuidUnknown, GuidUnknown)

\* the loops of get_change, add_change and remove_change: the indexes of the
\* changes with this sequence number and writer GUID
Matches(ch, seq, guid) ==
    {i \in 1..Len(ch) : ch[i].sequenceNumber = seq /\ ch[i].writerGUID = guid}

\* changes.erase(it)
Erase(ch, i) == [k \in 1..(Len(ch) - 1) |-> IF k < i THEN ch[k] ELSE ch[k + 1]]

\* add_change up to the call of updateMaxMinSeqNum (lines 64-95): the value
\* returned, the new changes and the new rtpswriter->lastChangeSequenceNumber
add_change_push(seq, guid) ==
    IF Len(changes) = historySize
    THEN [ret |-> FALSE, changes |-> changes, last |-> lastChangeSequenceNumber]
    ELSE IF historyKind = "WRITER"
    THEN [ret |-> TRUE,
          changes |-> Append(changes, Change(lastChangeSequenceNumber + 1, guid)),
          last |-> lastChangeSequenceNumber + 1]
    ELSE IF Matches(changes, seq, guid) # {}
    THEN [ret |-> FALSE, changes |-> changes, last |-> lastChangeSequenceNumber]
    ELSE [ret |-> TRUE, changes |-> Append(changes, Change(seq, guid)),
          last |-> lastChangeSequenceNumber]

\* bool HistoryCache::isFull()
isFull == isHistoryFull

StoreMaxMin(m) ==
    /\ minSeqNum' = m.minSeqNum
    /\ maxSeqNum' = m.maxSeqNum
    /\ minSeqNumGuid' = m.minSeqNumGuid
    /\ maxSeqNumGuid' = m.maxSeqNumGuid

\* the four fields as they are now
Fields == MaxMin(minSeqNum, maxSeqNum, minSeqNumGuid, maxSeqNumGuid)

\* HistoryCache::HistoryCache(), with the history size and kind its owner
\* sets, isHistoryFull false and the writer's sequence number 0
CacheNew(size, kind) ==
    /\ changes = <<>>
    /\ minSeqNum = SeqUnknown
    /\ maxSeqNum = SeqUnknown
    /\ minSeqNumGuid = GuidUnknown
    /\ maxSeqNumGuid = GuidUnknown
    /\ isHistoryFull = FALSE
    /\ historySize = size
    /\ historyKind = kind
    /\ lastChangeSequenceNumber = 0

\* both threads outside any operation
ThreadsIdle ==
    /\ cacheOp = [op |-> "new", ret |-> TRUE]
    /\ pc = "idle"
    /\ it = 1
    /\ curOp = "none"
    /\ rpc = "idle"
    /\ rseq = SeqUnknown
    /\ got = <<"none", SeqUnknown, GuidUnknown>>
    /\ lastStable = MaxMin(SeqUnknown, SeqUnknown, GuidUnknown, GuidUnknown)
    /\ seen = {}
    /\ gotOk = TRUE

-----------------------------------------------------------------------------
(* The state machine: one instance driven through its public operations *)

OpRec(op, item, ret) == [op |-> op, item |-> item, ret |-> ret]

Store(r) ==
    /\ base_' = r.base_
    /\ range_max_' = r.range_max_
    /\ bitmap_' = r.bitmap_
    /\ num_bits_' = r.num_bits_

InitN(ns) ==
    /\ NBITS \in ns
    /\ \E b \in Bases(NBITS) :
          /\ base_ = BitmapRange(NBITS, b).base_
          /\ range_max_ = BitmapRange(NBITS, b).range_max_
          /\ bitmap_ = BitmapRange(NBITS, b).bitmap_
          /\ num_bits_ = BitmapRange(NBITS, b).num_bits_
          /\ base0 = b
    /\ lastOp = OpRec("new", 0, TRUE)
    /\ added = {}
    /\ phase = "adds"
    /\ noSet = TRUE
    /\ CacheNew(0, "WRITER")
    /\ ThreadsIdle

Init == InitN(SmallN)

InitScenario == InitN({ScenarioN})

Add(item) ==
    LET res == add(NBITS, Self, item)
    IN /\ Store(res.r)
       /\ lastOp' = OpRec("add", item, res.ret)
       /\ added' = IF ~res.ret THEN added
                    ELSE IF phase = "adds" THEN added \cup {item} ELSE {}
       /\ phase' = IF ~res.ret \/ phase = "adds" THEN phase ELSE "other"
       /\ UNCHANGED <<NBITS, base0, noSet, cacheVars, threadVars>>

SetBase(b) ==
    /\ Store(base(NBITS, Self, b))
    /\ lastOp' = OpRec("base", 0, TRUE)
    /\ base0' = b
    /\ added' = {}
    /\ phase' = "adds"
    /\ noSet' = TRUE
    /\ UNCHANGED <<NBITS, cacheVars, threadVars>>

BaseUpdate(b) ==
    /\ Store(base_update(NBITS, Self, b))
    /\ lastOp' = OpRec("base_update", b, TRUE)
    /\ phase' = IF b = base_ THEN phase
                 ELSE IF phase = "adds" THEN "rebased" ELSE "other"
    /\ added' = IF b = base_ \/ phase = "adds" THEN added ELSE {}
    /\ UNCHANGED <<NBITS, base0, noSet, cacheVars, threadVars>>

BitmapSet(num_bits, offs) ==
    /\ Store(bitmap_set(NBITS, Self, num_bits, WordsOf(NBITS, offs)))
    /\ lastOp' = OpRec("bitmap_set", 0, TRUE)
    /\ phase' = "other"
    /\ added' = {}
    /\ noSet' = FALSE
    /\ UNCHANGED <<NBITS, base0, cacheVars, threadVars>>

Next ==
    \/ \E item \in Items(NBITS) : Add(item)
    \/ \E b \in Bases(NBITS) : SetBase(b)
    \/ \E b \in Bases(NBITS) : BaseUpdate(b)
    \/ \E num_bits \in SetNumBits : \E offs \in SetOffsets : BitmapSet(num_bits, offs)

Spec == Init /\ [][Next]_vars

\* the small windows and the window of the documented scenarios together
InitAll == InitN(SmallN \cup {ScenarioN})

SpecAll == InitAll /\ [][Next]_vars

\* window sizes that are multiples of 32: one word, two words, eight words
MultipleN == {32, 64, ScenarioN}

InitMultiple == InitN(MultipleN)

SpecMultiple == InitMultiple /\ [][Next]_vars

SpecScenario == InitScenario /\ [][Next]_vars

-----------------------------------------------------------------------------
(* HistoryCache on a single thread: each operation is one step *)

\* the BitmapRange is not used
BitmapIdle ==
    /\ NBITS = 32
    /\ base_ = BitmapRange(32, 10).base_
    /\ range_max_ = BitmapRange(32, 10).range_max_
    /\ bitmap_ = BitmapRange(32, 10).bitmap_
    /\ num_bits_ = BitmapRange(32, 10).num_bits_
    /\ lastOp = OpRec("new", 0, TRUE)
    /\ base0 = 10
    /\ added = {}
    /\ phase = "adds"
    /\ noSet = TRUE

InitCache ==
    /\ BitmapIdle
    /\ \E size \in 0..MaxHistory : \E kind \in {"WRITER", "READER"} : CacheNew(size, kind)
    /\ ThreadsIdle

Completed(op, ret) ==
    /\ cacheOp' = [op |-> op, ret |-> ret]
    /\ UNCHANGED <<pc, it, curOp, rpc, rseq, got, lastStable, seen, gotOk>>

\* bool HistoryCache::add_change(CacheChange_t* a_change, CacheChange_t** ch_ptr)
AddChange(seq, guid) ==
    /\ historyKind = "WRITER" => lastChangeSequenceNumber < MaxSeq
    /\ LET p == add_change_push(seq, guid)
       IN /\ changes' = p.changes
          /\ lastChangeSequenceNumber' = p.last
          /\ IF p.ret
             THEN /\ StoreMaxMin(updateMaxMinSeqNum(p.changes))
                  /\ isHistoryFull' = IF Len(p.changes) = historySize THEN TRUE ELSE isHistoryFull
             ELSE UNCHANGED <<minSeqNum, maxSeqNum, minSeqNumGuid, maxSeqNumGuid, isHistoryFull>>
          /\ Completed("add_change", p.ret)
    /\ UNCHANGED <<bitmapVars, historySize, historyKind>>

\* bool HistoryCache::remove_change(SequenceNumber_t seqnum, GUID_t guid)
RemoveChange(seq, guid) ==
    /\ IF Matches(changes, seq, guid) # {}
       THEN LET ch == Erase(changes, MinOf(Matches(changes, seq, guid)))
            IN /\ changes' = ch
               /\ isHistoryFull' = FALSE
               /\ StoreMaxMin(updateMaxMinSeqNum(ch))
               /\ Completed("remove_change", TRUE)
       ELSE /\ UNCHANGED <<changes, isHistoryFull, minSeqNum, maxSeqNum,
                           minSeqNumGuid, maxSeqNumGuid>>
            /\ Completed("remove_change", FALSE)
    /\ UNCHANGED <<bitmapVars, historySize, historyKind, lastChangeSequenceNumber>>

\* bool HistoryCache::remove_change(std::vector<CacheChange_t*>::iterator it),
\* for an iterator to an element of changes
RemoveChangeAt(i) ==
    /\ i \in 1..Len(changes)
    /\ LET ch == Erase(changes, i)
       IN /\ changes' = ch
          /\ isHistoryFull' = FALSE
          /\ StoreMaxMin(updateMaxMinSeqNum(ch))
          /\ Completed("remove_change_it", TRUE)
    /\ UNCHANGED <<bitmapVars, historySize, historyKind, lastChangeSequenceNumber>>

\* bool HistoryCache::remove_all_changes()
RemoveAllChanges ==
    /\ IF changes # <<>>
       THEN /\ changes' = <<>>
            /\ StoreMaxMin(updateMaxMinSeqNum(<<>>))
            /\ isHistoryFull' = FALSE
            /\ Completed("remove_all_changes", TRUE)
       ELSE /\ UNCHANGED <<changes, isHistoryFull, minSeqNum, maxSeqNum,
                           minSeqNumGuid, maxSeqNumGuid>>
            /\ Completed("remove_all_changes", FALSE)
    /\ UNCHANGED <<bitmapVars, historySize, historyKind, lastChangeSequenceNumber>>

NextCache ==
    \/ \E seq \in SeqNums : \E guid \in Guids : AddChange(seq, guid)
    \/ \E seq \in SeqNums : \E guid \in Guids : RemoveChange(seq, guid)
    \/ \E i \in 1..MaxHistory : RemoveChangeAt(i)
    \/ RemoveAllChanges

SpecCache == InitCache /\ [][NextCache]_vars

-----------------------------------------------------------------------------
(* HistoryCache with two threads.  One thread runs the mutating operations  *)
(* under the lock of boost::lock_guard<HistoryCache> (updateMaxMinSeqNum    *)
(* locks it again, so the lock is recursive); the other calls               *)
(* get_seq_num_min / get_seq_num_max, which take no lock.  The getters only *)
(* read the four fields updateMaxMinSeqNum writes, so each statement of     *)
(* updateMaxMinSeqNum and of the getters is one step; the unsynchronised    *)
(* accesses are a data race, of which statement interleaving is the least   *)
(* a build can show.                                                        *)

\* the (seqnum, guid) pairs a getter may return for the contents ch
ContentPairs(ch, which) ==
    IF ch = <<>>
    THEN {<<SeqUnknown, GuidUnknown>>}
    ELSE LET seqs == {ch[i].sequenceNumber : i \in 1..Len(ch)}
             m == IF which = "min" THEN MinOf(seqs) ELSE MaxOf(seqs)
         IN {<<m, ch[i].writerGUID>> : i \in {k \in 1..Len(ch) : ch[k].sequenceNumber = m}}

\* the pair of the fields f a getter returns
FieldPair(f, which) ==
    IF which = "min" THEN <<f.minSeqNum, f.minSeqNumGuid>>
                     ELSE <<f.maxSeqNum, f.maxSeqNumGuid>>

\* the operation returns false before changing anything
ReturnFalse(op) ==
    /\ cacheOp' = [op |-> op, ret |-> FALSE]
    /\ UNCHANGED <<cacheVars, pc, it, curOp, rpc, rseq, got, lastStable, seen, gotOk>>

\* the operation reaches its call of updateMaxMinSeqNum
EnterUpdate(op, ch) ==
    /\ changes' = ch
    /\ curOp' = op
    /\ pc' = IF ch # <<>> THEN "l192" ELSE "l210"
    /\ UNCHANGED <<minSeqNum, maxSeqNum, minSeqNumGuid, maxSeqNumGuid,
                   historySize, historyKind, cacheOp, it, rpc, rseq, got,
                   lastStable, seen, gotOk>>

\* add_change, lines 58-96
BeginAdd(seq, guid) ==
    /\ pc = "idle"
    /\ historyKind = "WRITER" => lastChangeSequenceNumber < MaxSeq
    /\ LET p == add_change_push(seq, guid)
       IN IF p.ret
          THEN /\ EnterUpdate("add_change", p.changes)
               /\ lastChangeSequenceNumber' = p.last
               /\ UNCHANGED isHistoryFull
          ELSE ReturnFalse("add_change")
    /\ UNCHANGED bitmapVars

\* remove_change(seqnum, guid), lines 112-123
BeginRemove(seq, guid) ==
    /\ pc = "idle"
    /\ IF Matches(changes, seq, guid) # {}
       THEN /\ EnterUpdate("remove_change", Erase(changes, MinOf(Matches(changes, seq, guid))))
            /\ isHistoryFull' = FALSE
            /\ UNCHANGED lastChangeSequenceNumber
       ELSE ReturnFalse("remove_change")
    /\ UNCHANGED bitmapVars

\* remove_change(it), lines 130-137
BeginRemoveAt(i) ==
    /\ pc = "idle"
    /\ i \in 1..Len(changes)
    /\ EnterUpdate("remove_change_it", Erase(changes, i))
    /\ isHistoryFull' = FALSE
    /\ UNCHANGED <<bitmapVars, lastChangeSequenceNumber>>

\* remove_all_changes, lines 145-156
BeginRemoveAll ==
    /\ pc = "idle"
    /\ IF changes # <<>>
       THEN /\ EnterUpdate("remove_all_changes", <<>>)
            /\ UNCHANGED <<isHistoryFull, lastChangeSequenceNumber>>
       ELSE ReturnFalse("remove_all_changes")
    /\ UNCHANGED bitmapVars

\* a statement of updateMaxMinSeqNum that leaves everything but the fields
\* it assigns, pc and it unchanged
UpdateFrame ==
    UNCHANGED <<bitmapVars, changes, isHistoryFull, historySize, historyKind,
                lastChangeSequenceNumber, cacheOp, curOp, rpc, rseq, got,
                lastStable, seen, gotOk>>

\* maxSeqNum = minSeqNum = changes[0]->sequenceNumber;
L192 ==
    /\ pc = "l192"
    /\ minSeqNum' = changes[1].sequenceNumber
    /\ maxSeqNum' = changes[1].sequenceNumber
    /\ pc' = "l193"
    /\ UNCHANGED <<minSeqNumGuid, maxSeqNumGuid, it>>
    /\ UpdateFrame

\* maxSeqNumGuid = minSeqNumGuid = changes[0]->writerGUID; it = changes.begin()
L193 ==
    /\ pc = "l193"
    /\ minSeqNumGuid' = changes[1].writerGUID
    /\ maxSeqNumGuid' = changes[1].writerGUID
    /\ it' = 1
    /\ pc' = "l196"
    /\ UNCHANGED <<minSeqNum, maxSeqNum>>
    /\ UpdateFrame

\* it != changes.end(); if (... > maxSeqNum.to64long()) maxSeqNum = (*it)->sequenceNumber;
L196 ==
    /\ pc = "l196"
    /\ IF it > Len(changes)
       THEN /\ pc' = "ret"
            /\ UNCHANGED maxSeqNum
       ELSE IF changes[it].sequenceNumber > maxSeqNum
       THEN /\ maxSeqNum' = changes[it].sequenceNumber
            /\ pc' = "l199"
       ELSE /\ pc' = "l201"
            /\ UNCHANGED maxSeqNum
    /\ UNCHANGED <<minSeqNum, minSeqNumGuid, maxSeqNumGuid, it>>
    /\ UpdateFrame

\* maxSeqNumGuid = (*it)->writerGUID;
L199 ==
    /\ pc = "l199"
    /\ maxSeqNumGuid' = changes[it].writerGUID
    /\ pc' = "l201"
    /\ UNCHANGED <<minSeqNum, maxSeqNum, minSeqNumGuid, it>>
    /\ UpdateFrame

\* if (... < minSeqNum.to64long()) minSeqNum = (*it)->sequenceNumber; else it++
L201 ==
    /\ pc = "l201"
    /\ IF changes[it].sequenceNumber < minSeqNum
       THEN /\ minSeqNum' = changes[it].sequenceNumber
            /\ pc' = "l204"
            /\ UNCHANGED it
       ELSE /\ pc' = "l196"
            /\ it' = it + 1
            /\ UNCHANGED minSeqNum
    /\ UNCHANGED <<maxSeqNum, minSeqNumGuid, maxSeqNumGuid>>
    /\ UpdateFrame

\* minSeqNumGuid = (*it)->writerGUID; it++
L204 ==
    /\ pc = "l204"
    /\ minSeqNumGuid' = changes[it].writerGUID
    /\ it' = it + 1
    /\ pc' = "l196"
    /\ UNCHANGED <<minSeqNum, maxSeqNum, maxSeqNumGuid>>
    /\ UpdateFrame

\* SEQUENCENUMBER_UNKOWN(minSeqNum);
L210 ==
    /\ pc = "l210"
    /\ minSeqNum' = SeqUnknown
    /\ pc' = "l211"
    /\ UNCHANGED <<maxSeqNum, minSeqNumGuid, maxSeqNumGuid, it>>
    /\ UpdateFrame

\* SEQUENCENUMBER_UNKOWN(maxSeqNum);
L211 ==
    /\ pc = "l211"
    /\ maxSeqNum' = SeqUnknown
    /\ pc' = "l212"
    /\ UNCHANGED <<minSeqNum, minSeqNumGuid, maxSeqNumGuid, it>>
    /\ UpdateFrame

\* GUID_UNKNOWN(minSeqNumGuid);
L212 ==
    /\ pc = "l212"
    /\ minSeqNumGuid' = GuidUnknown
    /\ pc' = "l213"
    /\ UNCHANGED <<minSeqNum, maxSeqNum, maxSeqNumGuid, it>>
    /\ UpdateFrame

\* GUID_UNKNOWN(maxSeqNumGuid);
L213 ==
    /\ pc = "l213"
    /\ maxSeqNumGuid' = GuidUnknown
    /\ pc' = "ret"
    /\ UNCHANGED <<minSeqNum, maxSeqNum, minSeqNumGuid, it>>
    /\ UpdateFrame

\* the rest of the operation after updateMaxMinSeqNum returns (lines 98-105,
\* 124, 139, 157-158): the operation completes and returns true
Return ==
    /\ pc = "ret"
    /\ isHistoryFull' = IF curOp = "add_change"
                         THEN (IF Len(changes) = historySize THEN TRUE ELSE isHistoryFull)
                         ELSE IF curOp = "remove_all_changes" THEN FALSE
                         ELSE isHistoryFull
    /\ cacheOp' = [op |-> curOp, ret |-> TRUE]
    /\ pc' = "idle"
    /\ curOp' = "none"
    /\ it' = 1
    /\ lastStable' = Fields
    /\ seen' = IF rpc = "l175" THEN seen \cup {FieldPair(Fields, "min")}
                ELSE IF rpc = "l182" THEN seen \cup {FieldPair(Fields, "max")}
                ELSE seen
    /\ UNCHANGED <<bitmapVars, changes, minSeqNum, maxSeqNum, minSeqNumGuid,
                   maxSeqNumGuid, historySize, historyKind,
                   lastChangeSequenceNumber, rpc, rseq, got, gotOk>>

\* a statement of a getter leaves the cache and the other thread unchanged
GetterFrame ==
    UNCHANGED <<bitmapVars, cacheVars, cacheOp, pc, it, curOp, lastStable>>

\* get_seq_num_min: *seqnum = minSeqNum;
GetMin174 ==
    /\ rpc \in {"idle", "done"}
    /\ rseq' = minSeqNum
    /\ rpc' = "l175"
    /\ seen' = {FieldPair(lastStable, "min")}
    /\ got' = <<"none", SeqUnknown, GuidUnknown>>
    /\ gotOk' = TRUE
    /\ GetterFrame

\* get_seq_num_min: *guid = minSeqNumGuid; return true;
GetMin175 ==
    /\ rpc = "l175"
    /\ got' = <<"min", rseq, minSeqNumGuid>>
    /\ gotOk' = (<<rseq, minSeqNumGuid>> \in seen \cup ContentPairs(changes, "min"))
    /\ rpc' = "done"
    /\ rseq' = SeqUnknown
    /\ seen' = {}
    /\ GetterFrame

\* get_seq_num_max: *seqnum = maxSeqNum;
GetMax181 ==
    /\ rpc \in {"idle", "done"}
    /\ rseq' = maxSeqNum
    /\ rpc' = "l182"
    /\ seen' = {FieldPair(lastStable, "max")}
    /\ got' = <<"none", SeqUnknown, GuidUnknown>>
    /\ gotOk' = TRUE
    /\ GetterFrame

\* get_seq_num_max: *guid = maxSeqNumGuid; return true;
GetMax182 ==
    /\ rpc = "l182"
    /\ got' = <<"max", rseq, maxSeqNumGuid>>
    /\ gotOk' = (<<rseq, maxSeqNumGuid>> \in seen \cup ContentPairs(changes, "max"))
    /\ rpc' = "done"
    /\ rseq' = SeqUnknown
    /\ seen' = {}
    /\ GetterFrame

NextRace ==
    \/ \E seq \in SeqNums : \E guid \in Guids : BeginAdd(seq, guid)
    \/ \E seq \in SeqNums : \E guid \in Guids : BeginRemove(seq, guid)
    \/ \E i \in 1..MaxHistory : BeginRemoveAt(i)
    \/ BeginRemoveAll
    \/ L192 \/ L193 \/ L196 \/ L199 \/ L201 \/ L204
    \/ L210 \/ L211 \/ L212 \/ L213
    \/ Return
    \/ GetMin174 \/ GetMin175 \/ GetMax181 \/ GetMax182

SpecRace == InitCache /\ [][NextRace]_vars

\* when the mutating thread is outside any operation, the statements of
\* updateMaxMinSeqNum have produced what the operation as one step produces
RaceUpdateAgrees ==
    pc = "idle" => Fields = updateMaxMinSeqNum(changes)

TypeOK ==
    /\ num_bits_ \in Nat
    /\ num_bits_ <= 32 * NITEMS(NBITS)
    /\ DOMAIN bitmap_ = 0..(NITEMS(NBITS) - 1)

-----------------------------------------------------------------------------
(* Vocabulary of the properties *)

\* the window [base, base + NBITS - 1]
Window(n, b) == b..(b + (n - 1))

\* the set of the items for_each emits
Emitted(r) == {for_each(r)[i] : i \in 1..Len(for_each(r))}

\* the bit of the item at offset k from the base
BitAt(r, k) == (31 - (k % 32)) \in r.bitmap_[k \div 32]

\* the elements of a set of items, in ascending order
RECURSIVE Ascending(_)
Ascending(S) ==
    IF S = {} THEN <<>> ELSE <<MinOf(S)>> \o Ascending(S \ {MinOf(S)})

\* C1: a base_update keeps every emitted item that lies in both the old and
\* the new window, emits nothing outside the new window, and emits nothing
\* that was not emitted before.
C1_RebasePreservesWindow ==
    [][lastOp'.op = "base_update" =>
          /\ \A x \in Emitted(Self) :
                 (x \in Window(NBITS, base_) /\ x \in Window(NBITS, base_')) => x \in Emitted(Self')
          /\ \A x \in Emitted(Self') : x \in Window(NBITS, base_')
          /\ \A x \in Emitted(Self') : x \in Emitted(Self)]_vars

\* C2: whenever empty() is false, some bit below num_bits is set and
\* for_each emits at least one item.
C2_NonEmptyHasBit ==
    ~empty(Self) =>
        /\ \E k \in 0..(num_bits_ - 1) : BitAt(Self, k)
        /\ for_each(Self) # <<>>

\* C3: every bit of the bitmap at an offset k >= num_bits is 0.
C3_NoBitAboveNumBits ==
    \A k \in num_bits_..(32 * NITEMS(NBITS) - 1) : ~BitAt(Self, k)

\* C4: whenever empty() is false, max() is the largest item for_each emits
\* and the bit at offset num_bits - 1 is set.
C4_MaxIsHighestSet ==
    ~empty(Self) =>
        /\ BitAt(Self, num_bits_ - 1)
        /\ for_each(Self) # <<>>
        /\ max(Self) = for_each(Self)[Len(for_each(Self))]
        /\ \A x \in Emitted(Self) : x <= max(Self)

\* C5: every item for_each emits lies in the window [base, base + NBITS - 1].
C5_EmittedInWindow ==
    \A x \in Emitted(Self) : x \in Window(NBITS, base_)

\* C6: add(x) returns true exactly when base <= x <= base + NBITS - 1, and
\* an add that returns false leaves base, range_max, num_bits and every
\* bitmap word unchanged.
C6_AddGate ==
    [][lastOp'.op = "add" =>
          /\ lastOp'.ret <=> (base_ <= lastOp'.item /\ lastOp'.item <= base_ + (NBITS - 1))
          /\ ~lastOp'.ret => UNCHANGED <<base_, range_max_, num_bits_, bitmap_>>]_vars

\* an add rejected after a base_update, for an item of the original window
C6_Witness ==
    /\ lastOp.op = "add"
    /\ ~lastOp.ret
    /\ phase = "rebased"
    /\ lastOp.item \in Window(NBITS, base0)

\* C7: after adding the distinct items of a set to an empty range, in any
\* order, for_each emits exactly the items of the set, each once, in
\* strictly ascending order.
C7_EnumerationIsSortedAdds ==
    phase = "adds" => for_each(Self) = Ascending(added)

\* three items or more added, the smallest of them last
C7_Witness ==
    /\ phase = "adds"
    /\ Cardinality(added) >= 3
    /\ lastOp.op = "add"
    /\ lastOp.ret
    /\ lastOp.item = MinOf(added)
    /\ for_each(Self) = Ascending(added)

\* the range bitmap_set builds from bitmap_get of the current one, same base
RoundTrip ==
    bitmap_set(NBITS, BitmapRange(NBITS, base_),
               bitmap_get(Self).num_bits, bitmap_get(Self).bitmap)

\* C8: bitmap_set of what bitmap_get returns, on a range with the same base,
\* gives a range whose for_each emits the same sequence of items.
C8_GetSetRoundTrip ==
    for_each(RoundTrip) = for_each(Self)

\* a non-empty enumeration whose round trip changes the stored words
C8_Witness ==
    /\ for_each(Self) # <<>>
    /\ RoundTrip.bitmap_ # bitmap_
    /\ for_each(RoundTrip) = for_each(Self)

\* BitmapRange(1000), add(1000), add(1200), base_update(900) with NBITS = 256
Scenario5 ==
    /\ NBITS = ScenarioN
    /\ base0 = 1000
    /\ added = {1000, 1200}
    /\ phase = "rebased"
    /\ base_ = 900

\* C9 as stated: after the scenario for_each emits [1000, 1200], base() is
\* 900 and num_bits is 301.
C9_AsStated ==
    Scenario5 =>
        /\ for_each(Self) = <<1000, 1200>>
        /\ base_ = 900
        /\ num_bits_ = 301

\* C9 amended: after the scenario for_each emits [1000] (1200 is above the
\* new window [900, 1155]), base() is 900 and num_bits is 101.
C9_RightShiftScenario ==
    Scenario5 =>
        /\ for_each(Self) = <<1000>>
        /\ base_ = 900
        /\ num_bits_ = 101

\* the scenario has just run
C9_Witness ==
    /\ Scenario5
    /\ lastOp.op = "base_update"
    /\ for_each(Self) = <<1000>>

\* C10: num_bits <= NBITS.
C10_NumBitsAtMostN ==
    num_bits_ <= NBITS

\* the offsets of the bits that are 1 in the bitmap of r
SetBits(n, r) == {k \in 0..(32 * NITEMS(n) - 1) : BitAt(r, k)}

\* C11: if num_bits = 0 then every word of the bitmap is 0.
C11_EmptyMeansZeroWords ==
    num_bits_ = 0 => \A i \in 0..(NITEMS(NBITS) - 1) : bitmap_[i] = {}

\* a base_update has emptied a range that held items
C11_Witness ==
    /\ lastOp.op = "base_update"
    /\ phase = "rebased"
    /\ added # {}
    /\ num_bits_ = 0
    /\ bitmap_ = ZeroMap(NBITS)

\* BitmapRange(1000), add(1250), base_update(990) with NBITS = 256
Scenario6 ==
    /\ NBITS = ScenarioN
    /\ base0 = 1000
    /\ added = {1250}
    /\ phase = "rebased"
    /\ base_ = 990

\* C12: a base_update to a lower base, shift = base - new_base: if
\* shift >= NBITS the range is cleared; if num_bits + shift <= NBITS then
\* num_bits becomes num_bits + shift; otherwise num_bits becomes 1 + the
\* largest offset whose bit is set after the shift, or 0 when none is
\* (the documented scenario BitmapRange(1000), add(1250), base_update(990)
\* ends empty with num_bits = 0).
C12_RightShiftNumBits ==
    [][(lastOp'.op = "base_update" /\ lastOp'.item < base_) =>
              LET shift == base_ - lastOp'.item
              IN /\ shift >= NBITS =>
                        (num_bits_' = 0 /\ bitmap_' = ZeroMap(NBITS))
                 /\ (shift < NBITS /\ num_bits_ + shift <= NBITS) =>
                        num_bits_' = num_bits_ + shift
                 /\ (shift < NBITS /\ num_bits_ + shift > NBITS) =>
                        num_bits_' = IF SetBits(NBITS, Self') = {}
                                     THEN 0
                                     ELSE 1 + MaxOf(SetBits(NBITS, Self'))
                 /\ Scenario6' => (for_each(Self') = <<>> /\ num_bits_' = 0)]_vars

\* the documented overflow scenario has just run: the only item fell off
C12_Witness ==
    /\ Scenario6
    /\ lastOp.op = "base_update"
    /\ num_bits_ = 0

\* BitmapRange(1000), add(1000), add(1005), add(1255), base_update(1006)
Scenario4 ==
    /\ NBITS = ScenarioN
    /\ base0 = 1000
    /\ added = {1000, 1005, 1255}
    /\ phase = "rebased"
    /\ base_ = 1006

\* C13: a base_update to a higher base, shift = new_base - base: if
\* shift >= num_bits the range becomes empty (num_bits = 0, all words 0),
\* otherwise num_bits becomes num_bits - shift; base() is new_base
\* afterwards (the documented scenario ends with enumeration [1255] and
\* num_bits = 250).
C13_LeftShiftNumBits ==
    [][(lastOp'.op = "base_update" /\ lastOp'.item > base_) =>
              LET shift == lastOp'.item - base_
              IN /\ shift >= num_bits_ =>
                        (num_bits_' = 0 /\ bitmap_' = ZeroMap(NBITS))
                 /\ shift < num_bits_ => num_bits_' = num_bits_ - shift
                 /\ base_' = lastOp'.item
                 /\ Scenario4' => (for_each(Self') = <<1255>> /\ num_bits_' = 250)]_vars

\* the documented left-shift scenario has just run
C13_Witness ==
    /\ Scenario4
    /\ lastOp.op = "base_update"
    /\ num_bits_ = 250

\* C14: bitmap_set(nb, words) leaves base and range_max unchanged, sets
\* num_bits to min(nb, NBITS), makes the first ceil(min(nb, NBITS) / 32)
\* words equal to the input words bit for bit and every other word 0,
\* whatever the bitmap held before.
C14_BitmapSetEffect ==
    [][lastOp'.op = "bitmap_set" =>
          \A nb \in SetNumBits : \A offs \in SetOffsets :
              BitmapSet(nb, offs) =>
                  LET m == IF nb < NBITS THEN nb ELSE NBITS
                      words == WordsOf(NBITS, offs)
                  IN /\ base_' = base_
                     /\ range_max_' = range_max_
                     /\ num_bits_' = m
                     /\ \A i \in 0..(NITEMS(NBITS) - 1) :
                            bitmap_'[i] = IF i < (m + 31) \div 32 THEN words[i] ELSE {}]_vars

\* a bitmap_set with num_bits = 1 has kept the bit at offset 5 of the input
C14_Witness ==
    /\ lastOp.op = "bitmap_set"
    /\ num_bits_ = 1
    /\ BitAt(Self, 0)
    /\ BitAt(Self, 5)
    /\ base_ # base0

\* C15: the range leaves the empty state only through an add that returns
\* true or a bitmap_set with num_bits > 0; base(T), bitmap_set(0, ...) and
\* a base_update that leaves no bit set put it in the empty state.
C15_EmptyTransitions ==
    [][/\ (empty(Self) /\ ~empty(Self')) =>
              \/ (lastOp'.op = "add" /\ lastOp'.ret)
              \/ (lastOp'.op = "bitmap_set" /\ num_bits_' > 0)
       /\ lastOp'.op = "base" => empty(Self')
       /\ (lastOp'.op = "bitmap_set" /\ BitmapSet(0, {})) => empty(Self')
       /\ (lastOp'.op = "base_update" /\ SetBits(NBITS, Self') = {}) => empty(Self')]_vars

\* C16: for NBITS a multiple of 32 and no bitmap_set, after a base_update
\* the set of items for_each emits is the set emitted before intersected
\* with the new window.
C16_ShiftsRefineSetModel ==
    [][(lastOp'.op = "base_update" /\ noSet /\ NBITS % 32 = 0) =>
          Emitted(Self') = Emitted(Self) \cap Window(NBITS, base_')]_vars

\* a base_update has kept some of the added items and dropped others
C16_Witness ==
    /\ NBITS % 32 = 0
    /\ noSet
    /\ phase = "rebased"
    /\ lastOp.op = "base_update"
    /\ Emitted(Self) # {}
    /\ Emitted(Self) # added
    /\ Emitted(Self) = added \cap Window(NBITS, base_)

\* C17: without bitmap_set, every bit that is 1 lies at an offset below
\* num_bits, so for_each emits an item for every bit that is 1.
C17_BitsBelowNumBits ==
    noSet =>
        /\ \A k \in SetBits(NBITS, Self) : k < num_bits_
        /\ Len(for_each(Self)) = Cardinality(SetBits(NBITS, Self))

\* items added out of order, then moved to higher offsets by a base_update
C17_Witness ==
    /\ noSet
    /\ phase = "rebased"
    /\ base_ < base0
    /\ Cardinality(added) >= 2
    /\ Cardinality(SetBits(NBITS, Self)) >= 2
    /\ \A k \in SetBits(NBITS, Self) : k < num_bits_

\* C18: after every completed add_change, remove_change or
\* remove_all_changes on a single thread (also one that returned false),
\* minSeqNum and maxSeqNum are the smallest and largest sequence numbers
\* stored, minSeqNumGuid and maxSeqNumGuid are writer GUIDs of changes
\* carrying them, and the four fields are UNKNOWN exactly when the cache is
\* empty.
C18_MaxMinTrackContents ==
    IF changes = <<>>
    THEN Fields = MaxMin(SeqUnknown, SeqUnknown, GuidUnknown, GuidUnknown)
    ELSE /\ \A i \in 1..Len(changes) :
                minSeqNum <= changes[i].sequenceNumber /\ changes[i].sequenceNumber <= maxSeqNum
         /\ \E i \in 1..Len(changes) : changes[i] = Change(minSeqNum, minSeqNumGuid)
         /\ \E i \in 1..Len(changes) : changes[i] = Change(maxSeqNum, maxSeqNumGuid)
         /\ minSeqNum # SeqUnknown /\ maxSeqNum # SeqUnknown
         /\ minSeqNumGuid # GuidUnknown /\ maxSeqNumGuid # GuidUnknown

\* a call that returned false on a cache of two changes, the larger sequence
\* number stored first and the two written by different writers
C18_Witness ==
    /\ ~cacheOp.ret
    /\ Len(changes) = 2
    /\ changes[1].sequenceNumber > changes[2].sequenceNumber
    /\ changes[1].writerGUID # changes[2].writerGUID
    /\ maxSeqNumGuid = changes[1].writerGUID
    /\ minSeqNumGuid = changes[2].writerGUID

\* C19: the pair a getter returns while a mutating operation runs on the
\* other thread is the minimum (maximum) sequence number and a matching
\* writer GUID of the contents between two completed operations.
C19_GettersSeeCompletedStates ==
    rpc = "done" => gotOk

\* C20: the number of stored changes never exceeds historySize, and isFull()
\* is true exactly when it equals historySize.
C20_FullExactlyAtHistorySize ==
    /\ Len(changes) <= historySize
    /\ isFull <=> (Len(changes) = historySize)

====
